---- MODULE Spec2Model ----
(***************************************************************************)
(* touchp: resolve a time source (-d / -r / -t) and the -a / -m selection  *)
(* into an (atime, mtime) pair, then touch every target file and hand the  *)
(* successfully touched ones to the paste dialog.                          *)
(*                                                                         *)
(* Instants are whole seconds since the epoch.  Python's None is the empty *)
(* tuple and a present value v is <<v>>.  A -t string is a tuple of        *)
(* one-character strings; -d strings and paths are opaque strings.         *)
(***************************************************************************)
EXTENDS Integers, Sequences, FiniteSets, TLC

\* ------------------------------------------------------------- bounds
MaxFiles == 2
MaxTicks == 2
MaxRuns == 2

\* ------------------------------------------------------------- Python values
None == <<>>
Some(v) == <<v>>

\* ------------------------------------------------------------- datetime
IsLeap(y) == (y % 4 = 0) /\ ((y % 100 # 0) \/ (y % 400 = 0))

DaysInMonth(y, m) ==
    IF m = 2 THEN (IF IsLeap(y) THEN 29 ELSE 28)
    ELSE IF m \in {4, 6, 9, 11} THEN 30 ELSE 31

DaysBeforeYear(y) ==
    (y - 1) * 365 + ((y - 1) \div 4) - ((y - 1) \div 100) + ((y - 1) \div 400)

RECURSIVE DaysBeforeMonth(_, _)
DaysBeforeMonth(y, m) ==
    IF m = 1 THEN 0 ELSE DaysBeforeMonth(y, m - 1) + DaysInMonth(y, m - 1)

Ordinal(y, m, d) == DaysBeforeYear(y) + DaysBeforeMonth(y, m) + d

\* datetime.datetime(yy, mm, dd, hh, min, ss) raises ValueError outside these ranges.
ValidDateTime(f) ==
    /\ f.year \in 1..9999
    /\ f.month \in 1..12
    /\ f.day \in 1..DaysInMonth(f.year, f.month)
    /\ f.hour \in 0..23
    /\ f.minute \in 0..59
    /\ f.second \in 0..59

\* dt_obj.timestamp() of a naive datetime in a zone tz seconds east of UTC.
Timestamp(f, tz) ==
    (Ordinal(f.year, f.month, f.day) - Ordinal(1970, 1, 1)) * 86400
        + f.hour * 3600 + f.minute * 60 + f.second - tz

\* datetime.datetime.now(): the local calendar fields of the instant clk.
Years == 1900..2100
DateTimeNow(clk, tz) ==
    LET local == clk + tz
        days == local \div 86400
        sod == local % 86400
        ord == days + Ordinal(1970, 1, 1)
        y == CHOOSE yy \in Years :
                 DaysBeforeYear(yy) < ord /\ ord <= DaysBeforeYear(yy + 1)
        m == CHOOSE mm \in 1..12 :
                 /\ Ordinal(y, mm, 1) <= ord
                 /\ ord < Ordinal(y, mm, 1) + DaysInMonth(y, mm)
    IN  [year |-> y, month |-> m, day |-> ord - Ordinal(y, m, 1) + 1,
         hour |-> sod \div 3600, minute |-> (sod % 3600) \div 60,
         second |-> sod % 60]

\* ------------------------------------------------------------- str / int
Digits == <<"0", "1", "2", "3", "4", "5", "6", "7", "8", "9">>
IsDigit(c) == \E k \in 1..10 : Digits[k] = c
DigitVal(c) == (CHOOSE k \in 1..10 : Digits[k] = c) - 1

RECURSIVE DigitsValue(_)
DigitsValue(s) ==
    IF s = <<>> THEN 0
    ELSE DigitsValue(SubSeq(s, 1, Len(s) - 1)) * 10 + DigitVal(s[Len(s)])

\* int(s) for a str s: None stands for ValueError.
IntOf(s) ==
    IF s # <<>> /\ \A k \in 1..Len(s) : IsDigit(s[k])
    THEN Some(DigitsValue(s)) ELSE None

\* str(n) for n >= 0.
RECURSIVE StrOf(_)
StrOf(n) ==
    IF n < 10 THEN <<Digits[n + 1]>>
    ELSE StrOf(n \div 10) \o <<Digits[(n % 10) + 1]>>

\* s[lo:hi] with 0 <= lo <= hi (Python slice: clipped to the string).
Slice(s, lo, hi) ==
    SubSeq(s, lo + 1, IF hi < Len(s) THEN hi ELSE Len(s))

\* ------------------------------------------------------------- -t SPEC
DotCount(t) == Cardinality({k \in 1..Len(t) : t[k] = "."})
FirstDot(t) == CHOOSE k \in 1..Len(t) : t[k] = "."

\* t_str after "t_str, ss = t_str.split('.')" (the whole string without a '.').
TStr(t) == IF DotCount(t) = 0 THEN t ELSE SubSeq(t, 1, FirstDot(t) - 1)

\* int(ss): the text after the '.', or now.second when there is no '.'.
SecondsOf(t, now) ==
    IF DotCount(t) = 0 THEN Some(now.second)
    ELSE IntOf(SubSeq(t, FirstDot(t) + 1, Len(t)))

\* yy, by the length of t_str; None stands for ValueError.
\* Variant: a 10-digit spec read like an 8-digit one (YY ignored).
CompactYear_current(t_str, now) ==
    IF Len(t_str) \in {8, 10} THEN Some(now.year)
    ELSE IF Len(t_str) = 12 THEN IntOf(Slice(t_str, 0, 4))
    ELSE None

CompactYear(t_str, now) ==
    IF Len(t_str) = 8 THEN Some(now.year)
    ELSE IF Len(t_str) = 10
         THEN IntOf(Slice(StrOf(now.year), 0, 2) \o Slice(t_str, 0, 2))
    ELSE IF Len(t_str) = 12 THEN IntOf(Slice(t_str, 0, 4))
    ELSE None

\* The fields of "-t t" read at local time now; None stands for ValueError.
ParseTSpec(t, now) ==
    IF DotCount(t) > 1 THEN None      \* too many values to unpack
    ELSE
    LET t_str == TStr(t)
        off == Len(t_str) - 8
        yy == CompactYear(t_str, now)
        mm == IntOf(Slice(t_str, off, off + 2))
        dd == IntOf(Slice(t_str, off + 2, off + 4))
        hh == IntOf(Slice(t_str, off + 4, off + 6))
        min == IntOf(Slice(t_str, off + 6, off + 8))
        ss == SecondsOf(t, now)
    IN  IF Len(t_str) \notin {8, 10, 12} THEN None
        ELSE IF None \in {yy, mm, dd, hh, min, ss} THEN None
        ELSE LET f == [year |-> yy[1], month |-> mm[1], day |-> dd[1],
                       hour |-> hh[1], minute |-> min[1], second |-> ss[1]]
             IN  IF ValidDateTime(f) THEN Some(f) ELSE None

\* ------------------------------------------------------------- -d STR
\* dateutil's parse on the strings the model passes: None stands for
\* ParserError (a ValueError); "aware" says the result carries tzinfo UTC.
ParseDate(s) ==
    IF s = "2020-01-01"
    THEN Some([dt |-> [year |-> 2020, month |-> 1, day |-> 1,
                       hour |-> 0, minute |-> 0, second |-> 0],
               aware |-> FALSE])
    ELSE IF s = "1970-01-01 00:00:00 UTC"
    THEN Some([dt |-> [year |-> 1970, month |-> 1, day |-> 1,
                       hour |-> 0, minute |-> 0, second |-> 0],
               aware |-> TRUE])
    ELSE None

\* ------------------------------------------------------------- filesystem
PathExists(fsys, p) == p \in DOMAIN fsys /\ fsys[p].exists

\* Python truthiness of an optional str (argparse default None).
TruthyStr(x) == x # None /\ x[1] # ""
TruthyChars(x) == x # None /\ x[1] # <<>>

\* ------------------------------------------------------------- main: time source
ResolveFailed == [ok |-> FALSE, atime |-> None, mtime |-> None]

ResolveSource(a, fsys, clk, tz) ==
    IF TruthyStr(a.reference)
    THEN IF ~PathExists(fsys, a.reference[1]) THEN ResolveFailed
         ELSE [ok |-> TRUE, atime |-> Some(fsys[a.reference[1]].atime),
               mtime |-> Some(fsys[a.reference[1]].mtime)]
    ELSE IF TruthyStr(a.date)
    THEN LET p == ParseDate(a.date[1])
         IN  IF p = None THEN ResolveFailed
             ELSE LET ts == Timestamp(p[1].dt, IF p[1].aware THEN 0 ELSE tz)
                  IN  [ok |-> TRUE, atime |-> Some(ts), mtime |-> Some(ts)]
    ELSE IF TruthyChars(a.t)
    THEN LET f == ParseTSpec(a.t[1], DateTimeNow(clk, tz))
         IN  IF f = None THEN ResolveFailed
             ELSE [ok |-> TRUE, atime |-> Some(Timestamp(f[1], tz)),
                   mtime |-> Some(Timestamp(f[1], tz))]
    ELSE [ok |-> TRUE, atime |-> None, mtime |-> None]

\* "x or datetime.datetime.now().timestamp()": None and 0.0 are both falsy.
OrNow(x, clk) == IF x # None /\ x[1] # 0 THEN x ELSE Some(clk)

\* ------------------------------------------------------------- update_timestamps
FinalAtime(atime, mtime, current_atime) ==
    IF atime # None THEN atime[1]
    ELSE IF mtime # None THEN mtime[1] ELSE current_atime

\* Variant: a missing mtime falls back to the file's own value, not the sibling.
FinalMtime_keep(atime, mtime, current_mtime) ==
    IF mtime # None THEN mtime[1] ELSE current_mtime

FinalMtime(atime, mtime, current_mtime) ==
    IF mtime # None THEN mtime[1]
    ELSE IF atime # None THEN atime[1] ELSE current_mtime

\* Which OS call of one update_timestamps call raises OSError, if any.
Faults == {"none", "create", "stat", "utime"}

Outcome(fsys, ret, raised, result) ==
    [fs |-> fsys, ret |-> ret, raised |-> raised, result |-> result]

\* Variant: no_create is ignored.
SkipMissing_never(existed, no_create) == FALSE

\* "if not os.path.exists(filepath): if no_create: ... return False"
SkipMissing(existed, no_create) == ~existed /\ no_create

update_timestamps(fsys, filepath, mtime, atime, no_create, clk, fault) ==
    LET existed == PathExists(fsys, filepath)
        \* open(filepath, 'a') creates an empty file stamped with the clock
        fs1 == IF existed THEN fsys
               ELSE [fsys EXCEPT ![filepath] =
                        [exists |-> TRUE, atime |-> clk, mtime |-> clk]]
        done == IF existed THEN "Updated" ELSE "Created"
    IN  IF SkipMissing(existed, no_create)
        THEN Outcome(fsys, FALSE, FALSE, "SkippedNoCreate")
        ELSE IF ~existed /\ fault = "create"
        THEN Outcome(fsys, FALSE, FALSE, "FailedCreate")
        ELSE IF mtime = None /\ atime = None
        THEN \* os.utime(filepath, None): both slots get the current time
             IF fault = "utime" THEN Outcome(fs1, FALSE, FALSE, "FailedUtime")
             ELSE Outcome([fs1 EXCEPT ![filepath].atime = clk,
                                      ![filepath].mtime = clk],
                          TRUE, FALSE, done)
        ELSE IF fault = "stat"
        THEN \* os.stat is outside every try block: OSError leaves the function
             Outcome(fs1, FALSE, TRUE, "StatRaised")
        ELSE IF fault = "utime" THEN Outcome(fs1, FALSE, FALSE, "FailedUtime")
        ELSE Outcome([fs1 EXCEPT
                        ![filepath].atime =
                            FinalAtime(atime, mtime, fs1[filepath].atime),
                        ![filepath].mtime =
                            FinalMtime(atime, mtime, fs1[filepath].mtime)],
                     TRUE, FALSE, done)

\* ------------------------------------------------------------- state
VARIABLES
    args,              \* argparse namespace: a, m, no_create, date, reference, t, file
    tz,                \* local zone, seconds east of UTC
    clock,             \* the system clock
    ticks,             \* how often the clock advanced during this run
    fs,                \* path -> [exists, atime, mtime]
    fs0,               \* the filesystem when this run started
    given,             \* the fields the -t string was written from, or None
    pc,                \* "resolve", "select", "select2", "touch", "exit"
    atime_change, mtime_change,
    atime_final, mtime_final,
    i,                 \* index into args.file of the next path
    successful_files,
    results,           \* per processed path, how update_timestamps left it
    exit_code,         \* None while running
    dialog,            \* the paths handed to PasteDialog, or None
    run,               \* 1 for the first invocation, 2 for its repetition
    prev               \* results of the previous invocation

vars == <<args, tz, clock, ticks, fs, fs0, given, pc, atime_change, mtime_change,
          atime_final, mtime_final, i, successful_files, results, exit_code,
          dialog, run, prev>>

\* ------------------------------------------------------------- inputs
Targets == {"p1", "p2"}
Paths == Targets \cup {"ref"}
FileLists == UNION {[1..n -> Targets] : n \in 1..MaxFiles}

Clocks == {1793772137}              \* 2026-11-04 06:02:17 UTC
YearEndClocks == {1830297598}       \* 2027-12-31 23:59:58 UTC
TZOffsets == {0, 7200}
RefTimes == {<<0, 1000>>, <<1000, 0>>, <<1000, 2000>>}
DateStrings == {"", "garbage", "2020-01-01", "1970-01-01 00:00:00 UTC"}
RefPaths == {"", "missing", "ref"}
TStrings ==
    { <<>>,
      <<".", "3", "0">>,
      <<"0", "2", "2", "9", "1", "4", "3">>,
      <<"2", "0", "2", "4", "0", "2", "2", "9", "1", "4", "3", "0", ".", "3", "0">>,
      <<"1", "9", "7", "0", "0", "1", "0", "1", "0", "0", "0", "0", ".", "0", "0">> }

NoSource == [date |-> None, reference |-> None, t |-> None]
Sources ==
    {NoSource}
    \cup {[NoSource EXCEPT !.date = Some(s)] : s \in DateStrings}
    \cup {[NoSource EXCEPT !.reference = Some(s)] : s \in RefPaths}
    \cup {[NoSource EXCEPT !.t = Some(s)] : s \in TStrings}

Namespace(a, m, c, src, files) ==
    [a |-> a, m |-> m, no_create |-> c, date |-> src.date,
     reference |-> src.reference, t |-> src.t, file |-> files]

Missing == [exists |-> FALSE, atime |-> 0, mtime |-> 0]
InitFS(e1, e2, rt) ==
    [p \in Paths |->
        IF p = "p1" THEN (IF e1 THEN [exists |-> TRUE, atime |-> 300, mtime |-> 400]
                          ELSE Missing)
        ELSE IF p = "p2" THEN (IF e2 THEN [exists |-> TRUE, atime |-> 500, mtime |-> 600]
                               ELSE Missing)
        ELSE [exists |-> TRUE, atime |-> rt[1], mtime |-> rt[2]]]

\* The state main() starts in, whatever the arguments and the environment.
Start ==
    /\ ticks = 0
    /\ fs0 = fs
    /\ pc = "resolve"
    /\ atime_change = None /\ mtime_change = None
    /\ atime_final = None /\ mtime_final = None
    /\ i = 1
    /\ successful_files = <<>>
    /\ results = <<>>
    /\ exit_code = None
    /\ dialog = None
    /\ run = 1
    /\ prev = <<>>

Init ==
    /\ \E a \in BOOLEAN, m \in BOOLEAN, c \in BOOLEAN, src \in Sources,
          files \in FileLists :
          args = Namespace(a, m, c, src, files)
    /\ tz \in TZOffsets
    /\ clock \in Clocks
    /\ \E e1 \in BOOLEAN, rt \in RefTimes :
          /\ (args.reference # Some("ref") => rt = <<1000, 2000>>)
          /\ fs = InitFS(e1, FALSE, rt)
    /\ given = None
    /\ Start

\* ------------------------------------------------------------- main
\* Lines 183-225: determine the timestamp to use, or exit 1.
Resolve ==
    /\ pc = "resolve"
    /\ LET r == ResolveSource(args, fs, clock, tz)
       IN  IF r.ok
           THEN /\ atime_change' = r.atime
                /\ mtime_change' = r.mtime
                /\ pc' = "select"
                /\ exit_code' = exit_code
           ELSE /\ pc' = "exit"
                /\ exit_code' = Some(1)
                /\ UNCHANGED <<atime_change, mtime_change>>
    /\ UNCHANGED <<args, tz, clock, ticks, fs, fs0, given, atime_final,
                   mtime_final, i, successful_files, results, dialog, run, prev>>

\* Lines 228-235, the assignment (if any) to atime_final.
SelectAtime ==
    /\ pc = "select"
    /\ atime_final' = IF args.m /\ ~args.a THEN None
                      ELSE OrNow(atime_change, clock)
    /\ pc' = "select2"
    /\ UNCHANGED <<args, tz, clock, ticks, fs, fs0, given, atime_change,
                   mtime_change, mtime_final, i, successful_files, results,
                   exit_code, dialog, run, prev>>

\* Lines 228-235, the assignment (if any) to mtime_final.
SelectMtime ==
    /\ pc = "select2"
    /\ mtime_final' = IF args.a /\ ~args.m THEN None
                      ELSE OrNow(mtime_change, clock)
    /\ pc' = "touch"
    /\ UNCHANGED <<args, tz, clock, ticks, fs, fs0, given, atime_change,
                   mtime_change, atime_final, i, successful_files, results,
                   exit_code, dialog, run, prev>>

\* Lines 239-241, one iteration: update_timestamps on the next path.
Touch ==
    /\ pc = "touch"
    /\ i <= Len(args.file)
    /\ \E fault \in Faults :
          LET r == update_timestamps(fs, args.file[i], mtime_final, atime_final,
                                     args.no_create, clock, fault)
          IN  /\ fs' = r.fs
              /\ results' = Append(results, r.result)
              /\ IF r.raised
                 THEN \* uncaught OSError: traceback, exit status 1
                      /\ pc' = "exit"
                      /\ exit_code' = Some(1)
                      /\ UNCHANGED <<i, successful_files>>
                 ELSE /\ i' = i + 1
                      /\ successful_files' =
                            IF r.ret THEN Append(successful_files, args.file[i])
                            ELSE successful_files
                      /\ UNCHANGED <<pc, exit_code>>
    /\ UNCHANGED <<args, tz, clock, ticks, fs0, given, atime_change, mtime_change,
                   atime_final, mtime_final, dialog, run, prev>>

\* Lines 244-258: exit 1 with nothing touched, else launch the dialog.
Finish ==
    /\ pc = "touch"
    /\ i > Len(args.file)
    /\ pc' = "exit"
    /\ IF successful_files = <<>>
       THEN exit_code' = Some(1) /\ dialog' = None
       ELSE exit_code' = Some(0) /\ dialog' = Some(successful_files)
    /\ UNCHANGED <<args, tz, clock, ticks, fs, fs0, given, atime_change,
                   mtime_change, atime_final, mtime_final, i, successful_files,
                   results, run, prev>>

\* The clock advances while the process runs.
Tick ==
    /\ pc \in {"select", "select2", "touch"}
    /\ ticks < MaxTicks
    /\ clock' = clock + 1
    /\ ticks' = ticks + 1
    /\ UNCHANGED <<args, tz, fs, fs0, given, pc, atime_change, mtime_change,
                   atime_final, mtime_final, i, successful_files, results,
                   exit_code, dialog, run, prev>>

Next == Resolve \/ SelectAtime \/ SelectMtime \/ Touch \/ Finish \/ Tick

Spec == Init /\ [][Next]_vars

\* ------------------------------------------------------------- -t inputs
\* A -t argument written as [[CC]YY]MMDDhhmm[.ss] from the fields of g, then
\* left as written ("ok") or shortened by its first character ("short").
Fmt2(n) == <<Digits[(n \div 10) + 1], Digits[(n % 10) + 1]>>

TString(g) ==
    LET prefix == IF g.form = 8 THEN <<>>
                  ELSE IF g.form = 10 THEN Fmt2(g.year)
                  ELSE Fmt2(g.year \div 100) \o Fmt2(g.year % 100)
        base == prefix \o Fmt2(g.month) \o Fmt2(g.day) \o Fmt2(g.hour)
                       \o Fmt2(g.minute)
        sfx == IF g.second = None THEN <<>> ELSE <<".">> \o Fmt2(g.second[1])
    IN  IF g.variant = "ok" THEN base \o sfx ELSE Tail(base) \o sfx

GivenYears ==
    {<<8, 0>>, <<10, 0>>, <<10, 24>>, <<10, 37>>,
     <<12, 0>>, <<12, 1970>>, <<12, 2000>>, <<12, 2024>>, <<12, 2037>>}

GivenSpecs ==
    {[form |-> fy[1], year |-> fy[2], month |-> mo, day |-> d, hour |-> h,
      minute |-> mi, second |-> s, variant |-> v] :
        fy \in GivenYears, mo \in {0, 2, 4, 12, 13}, d \in {0, 1, 29, 31, 32},
        h \in {0, 23, 24}, mi \in {59, 60},
        s \in {None, Some(0), Some(59), Some(60)},
        v \in {"ok", "short"}}

InitT ==
    /\ given \in {Some(g) : g \in GivenSpecs}
    /\ args = Namespace(FALSE, FALSE, FALSE,
                        [NoSource EXCEPT !.t = Some(TString(given[1]))],
                        <<"p1">>)
    /\ tz \in TZOffsets
    /\ clock \in Clocks \cup YearEndClocks
    /\ fs = InitFS(TRUE, FALSE, <<1000, 2000>>)
    /\ Start

SpecT == InitT /\ [][Next]_vars

\* ------------------------------------------------------------- two invocations
\* The same command line is run again after the first process has exited.
Rerun ==
    /\ pc = "exit"
    /\ run < MaxRuns
    /\ run' = run + 1
    /\ prev' = results
    /\ fs0' = fs
    /\ clock' = clock + 1
    /\ ticks' = 0
    /\ pc' = "resolve"
    /\ atime_change' = None /\ mtime_change' = None
    /\ atime_final' = None /\ mtime_final' = None
    /\ i' = 1
    /\ successful_files' = <<>>
    /\ results' = <<>>
    /\ exit_code' = None
    /\ dialog' = None
    /\ UNCHANGED <<args, tz, fs, given>>

InitTwice ==
    /\ \E a \in BOOLEAN, m \in BOOLEAN, c \in BOOLEAN,
          s \in {"2020-01-01", "1970-01-01 00:00:00 UTC"}, files \in FileLists :
          args = Namespace(a, m, c, [NoSource EXCEPT !.date = Some(s)], files)
    /\ tz \in TZOffsets
    /\ clock \in Clocks
    /\ \E e1 \in BOOLEAN : fs = InitFS(e1, FALSE, <<1000, 2000>>)
    /\ given = None
    /\ Start

NextTwice == Next \/ Rerun

SpecTwice == InitTwice /\ [][NextTwice]_vars

\* ------------------------------------------------------------- update_timestamps alone
\* The batch loop entered with any (atime, mtime) a caller may pass.
CallerTimes == {None, Some(11), Some(22)}

InitUT ==
    /\ \E c \in BOOLEAN, files \in FileLists :
          args = Namespace(FALSE, FALSE, c, NoSource, files)
    /\ tz \in TZOffsets
    /\ clock \in Clocks
    /\ \E e1 \in BOOLEAN : fs = InitFS(e1, FALSE, <<1000, 2000>>)
    /\ given = None
    /\ ticks = 0
    /\ fs0 = fs
    /\ pc = "touch"
    /\ atime_change = None /\ mtime_change = None
    /\ atime_final \in CallerTimes /\ mtime_final \in CallerTimes
    /\ i = 1
    /\ successful_files = <<>>
    /\ results = <<>>
    /\ exit_code = None
    /\ dialog = None
    /\ run = 1
    /\ prev = <<>>

NextUT == Touch \/ Finish \/ Tick

SpecUT == InitUT /\ [][NextUT]_vars

\* ------------------------------------------------------------- properties
\* The k-th processed path and whether update_timestamps returned True for it.
PathAt(k) == args.file[k]
Touched(k) == results[k] \in {"Created", "Updated"}
Processed == 1..Len(results)

\* The local time main() read while resolving (the clock stands still there).
NowAtResolve == DateTimeNow(clock - ticks, tz)

\* C1: with -a only and a -d date resolving to T, an existing file keeps its
\* modify time M and gets access time T.
C1_OnlyAtimeWritten ==
    \A k \in Processed :
        ( /\ args.a /\ ~args.m
          /\ args.date # None /\ atime_change # None
          /\ results[k] = "Updated" )
        => /\ fs[PathAt(k)].mtime = fs0[PathAt(k)].mtime
           /\ fs[PathAt(k)].atime = atime_change[1]

\* C2: with -r on an existing reference file (atime X, mtime Y) and neither
\* or both of -a/-m, every touched target has atime X and mtime Y.
C2_ReferenceCopied ==
    \A k \in Processed :
        ( /\ args.reference # None /\ PathExists(fs0, args.reference[1])
          /\ args.a = args.m
          /\ Touched(k) )
        => /\ fs[PathAt(k)].atime = fs0[args.reference[1]].atime
           /\ fs[PathAt(k)].mtime = fs0[args.reference[1]].mtime

\* C3: when the time source cannot be resolved (missing -r path, unparseable
\* -d string, -t of a wrong length or with a field out of range) the run exits
\* 1 and no path is created or changed.
SourceInvalid ==
    \/ args.reference # None /\ ~PathExists(fs0, args.reference[1])
    \/ args.date # None /\ ParseDate(args.date[1]) = None
    \/ args.t # None /\ ParseTSpec(args.t[1], NowAtResolve) = None

C3_AbortBeforeTouch ==
    SourceInvalid =>
        /\ pc = "exit" => exit_code = Some(1)
        /\ results = <<>>
        /\ fs = fs0

\* C4: every path of the batch is processed whatever fails on the others, the
\* paths handed on are exactly those whose own touch succeeded, in argument
\* order, and the run does not exit 1 when one of them succeeded.
RECURSIVE OkPaths(_)
OkPaths(n) ==
    IF n = 0 THEN <<>>
    ELSE IF Touched(n) THEN Append(OkPaths(n - 1), PathAt(n))
    ELSE OkPaths(n - 1)

C4_BatchIndependent ==
    (pc = "exit" /\ results # <<>>) =>
        /\ Len(results) = Len(args.file)
        /\ successful_files = OkPaths(Len(results))
        /\ (successful_files # <<>> => exit_code = Some(0) /\ dialog = Some(successful_files))

\* C5: a missing path under -c is not created, nothing about it changes, it
\* is left out of the successful set and the batch goes on; when no path
\* succeeded the run exits 1 without the dialog.
C5_NoCreateSkips ==
    /\ \A k \in Processed :
          (args.no_create /\ ~PathExists(fs0, PathAt(k)))
          => /\ results[k] = "SkippedNoCreate"
             /\ fs[PathAt(k)] = fs0[PathAt(k)]
             /\ \A j \in 1..Len(successful_files) : successful_files[j] # PathAt(k)
             /\ i > k
             /\ (pc = "exit" /\ Len(results) = k) => k = Len(args.file)
    /\ (pc = "exit" /\ \A k \in Processed : ~Touched(k))
          => exit_code = Some(1) /\ dialog = None

C5_Witness ==
    /\ pc = "exit"
    /\ args.no_create
    /\ args.file = <<"p2", "p1">>
    /\ results = <<"SkippedNoCreate", "Updated">>
    /\ ~fs["p2"].exists
    /\ successful_files = <<"p1">>

\* C6: a second run with the same -d value leaves every file it touches with
\* the access and modify times the first run left.
C6_Idempotent ==
    (run = 2 /\ args.date # None)
    => \A k \in Processed :
          (Touched(k) /\ k <= Len(prev) /\ prev[k] \in {"Created", "Updated"})
          => /\ fs[PathAt(k)].atime = fs0[PathAt(k)].atime
             /\ fs[PathAt(k)].mtime = fs0[PathAt(k)].mtime

\* C7: a -t spec of 8, 10 or 12 digits with fields in range resolves to the
\* instant whose local calendar fields are the ones written (year: current
\* year, current century + YY, or CCYY; second: .ss or the clock's second),
\* and that instant is the resolved access and modify time alike.
ExpectedFields ==
    LET g == given[1]
    IN  [year |-> IF g.form = 8 THEN NowAtResolve.year
                  ELSE IF g.form = 10
                       THEN (NowAtResolve.year \div 100) * 100 + g.year
                  ELSE g.year,
         month |-> g.month, day |-> g.day, hour |-> g.hour,
         minute |-> g.minute,
         second |-> IF g.second = None THEN NowAtResolve.second
                    ELSE g.second[1]]

C7_FieldsEncoded ==
    ( /\ given # None /\ given[1].variant = "ok"
      /\ ValidDateTime(ExpectedFields)
      /\ pc # "resolve" )
    => /\ atime_change # None
       /\ mtime_change = atime_change
       /\ DateTimeNow(atime_change[1], tz) = ExpectedFields

C7_Witness ==
    /\ given # None /\ given[1].variant = "ok" /\ given[1].form = 10
    /\ given[1].second = None
    /\ pc = "exit" /\ exit_code = Some(0)
    /\ DateTimeNow(atime_change[1], tz).year = 2024
    /\ DateTimeNow(atime_change[1], tz).day = 29

\* C8: with no time source, the access time and the modify time written are
\* one instant, the same for every file of the batch.
C8_SingleInstant ==
    (args.date = None /\ args.reference = None /\ args.t = None)
    => \A k \in Processed : Touched(k) =>
          /\ fs[PathAt(k)].atime = fs[PathAt(k)].mtime
          /\ \A j \in Processed : Touched(j) =>
                fs[PathAt(j)].atime = fs[PathAt(k)].atime

C10_NeverTheClock ==
    (atime_change # None /\ mtime_change # None)
    => \A k \in Processed : Touched(k) =>
          /\ fs[PathAt(k)].atime \in {atime_change[1], mtime_change[1]}
          /\ fs[PathAt(k)].mtime \in {atime_change[1], mtime_change[1]}
====
